---- MODULE Spec2Model ----
(***************************************************************************)
(* aioftp/common.py: the deadline wrapper, the raw timed stream, Throttle, *)
(* StreamThrottle, ThrottleStreamIO and AsyncStreamIterator.               *)
(*                                                                         *)
(* Time is the event loop's clock, counted in ticks; TicksPerSecond ticks  *)
(* make one second.  Limits are bytes per second, reset_rate and the       *)
(* timeouts are seconds, as in the source.  asyncio.sleep(d) and           *)
(* asyncio.wait_for(c, d) are taken as exact lower bounds: the sleeper is  *)
(* resumed, and the deadline fires, at some clock value >= the target.     *)
(***************************************************************************)
EXTENDS Integers, Sequences, FiniteSets, TLC

\* ------------------------------------------------------------------ bounds
TicksPerSecond == 2
MaxTime == 5
MaxCalls == 3
MaxLen == 2
MaxLimit == 2
MaxTimeout == 2
MaxUnitOps == 4
MaxSrc == 3
MaxSteps == 5
MaxTakes == 3
MaxInst == 4
MaxLocale == 2
MaxScopes == 2
MaxResetRate == 2
MaxCloneOps == 3
MaxDriftOps == 3

\* Python's None, kept apart from every number the model uses (all are >= 0).
None == -1

Pairs == {"P1", "P2"}
Dirs == {"read", "write"}
Streams == {1, 2}
Ops == {"read", "readline", "readexactly", "write"}
\* The limits of a stream's throttles: unlimited, or bytes per second.
Limits == {None} \cup (1..MaxLimit)
\* reset_rate and the stream's timeout, in seconds.
ResetRates == {1}
Timeouts == {1}
\* What a timeout argument or field may hold: None or seconds.
TimeoutArgs == {None} \cup (0..MaxTimeout)
\* What a Throttle's limit may be set to.
LimitArgs == {None} \cup (0..MaxLimit)

\* ----------------------------------------------------------------- helpers
Max2(a, b) == IF a >= b THEN a ELSE b

CeilDiv(n, d) == (n + d - 1) \div d

\* Python's round() of the rational n/d (d > 0): to nearest, ties to even.
Round(n, d) ==
    LET q == n \div d
        r == n % d
    IN  IF 2 * r < d THEN q
        ELSE IF 2 * r > d THEN q + 1
        ELSE IF q % 2 = 0 THEN q ELSE q + 1

\* A truthy Python value: neither None nor 0.
Truthy(v) == v # None /\ v # 0

\* ---------------------------------------------------------------- Throttle
\* Throttle.__init__
NewThrottle(limit, reset_rate) ==
    [limit |-> limit, reset_rate |-> reset_rate, start |-> None, sum |-> 0]

\* The guard of Throttle.wait: only then does it call asyncio.sleep.
ThrottleWaitSleeps(t) ==
    t.limit # None /\ t.limit > 0 /\ t.start # None

\* Throttle.wait with end = _sum / _limit: the window's start is forgotten.
ThrottleDelayNoStart(t, clock) ==
    IF t.limit # None /\ t.limit > 0 /\ t.start # None
    THEN LET owed == t.sum * TicksPerSecond - clock * t.limit
         IN  IF owed <= 0 THEN 0 ELSE CeilDiv(owed, t.limit)
    ELSE 0

\* max(0, end - now) of Throttle.wait, in ticks, rounded up to the clock's grid;
\* end = _start + _sum / _limit seconds.
ThrottleDelay(t, clock) ==
    IF ThrottleWaitSleeps(t)
    THEN LET owed == t.sum * TicksPerSecond - (clock - t.start) * t.limit
         IN  IF owed <= 0 THEN 0 ELSE CeilDiv(owed, t.limit)
    ELSE 0

\* Throttle.append with `self._sum = len(data)`: the bytes are not accumulated.
ThrottleAppendLast(t, n, start) ==
    IF t.limit # None /\ t.limit > 0
    THEN [t EXCEPT !.start = IF t.start = None THEN start ELSE t.start, !.sum = n]
    ELSE t

\* Throttle.append with `start - self._start >= self.reset_rate`.
ThrottleAppendDriftGe(t, n, start) ==
    IF t.limit # None /\ t.limit > 0
    THEN LET s0 == IF t.start = None THEN start ELSE t.start
             dt == start - s0
             drift == dt >= t.reset_rate * TicksPerSecond
         IN  [t EXCEPT !.start = IF drift THEN start ELSE s0,
                       !.sum = (IF drift
                                THEN t.sum - Round(dt * t.limit, TicksPerSecond)
                                ELSE t.sum) + n]
    ELSE t

\* Throttle.append without `self._start = start` in the correction.
ThrottleAppendKeepStart(t, n, start) ==
    IF t.limit # None /\ t.limit > 0
    THEN LET s0 == IF t.start = None THEN start ELSE t.start
             dt == start - s0
             drift == dt > t.reset_rate * TicksPerSecond
         IN  [t EXCEPT !.start = s0,
                       !.sum = (IF drift
                                THEN t.sum - Round(dt * t.limit, TicksPerSecond)
                                ELSE t.sum) + n]
    ELSE t

\* Throttle.append(data, start), len(data) = n.
ThrottleAppend(t, n, start) ==
    IF t.limit # None /\ t.limit > 0
    THEN LET s0 == IF t.start = None THEN start ELSE t.start
             dt == start - s0
             drift == dt > t.reset_rate * TicksPerSecond
         IN  [t EXCEPT !.start = IF drift THEN start ELSE s0,
                       !.sum = (IF drift
                                THEN t.sum - Round(dt * t.limit, TicksPerSecond)
                                ELSE t.sum) + n]
    ELSE t

\* A limit setter that keeps the throttle's memory.
ThrottleSetLimitKeep(t, value) == [t EXCEPT !.limit = value]

\* The limit setter.
ThrottleSetLimit(t, value) ==
    [t EXCEPT !.limit = value, !.start = None, !.sum = 0]

\* ---------------------------------------------------------------- StreamIO
\* a or b
PyOr(a, b) == IF Truthy(a) THEN a ELSE b

\* StreamIO.__init__: the two timeout fields.
StreamInit(timeout, rt, wt) ==
    [read_timeout |-> PyOr(rt, timeout), write_timeout |-> PyOr(wt, timeout)]

Dir(o) == IF o = "write" THEN "write" ELSE "read"

\* The field a with_timeout(name) wrapper names.
TimeoutField(o) == IF o = "write" THEN "write_timeout" ELSE "read_timeout"

\* The methods ThrottleStreamIO overrides; readexactly is inherited from StreamIO.
Throttled(o) == o \in {"read", "readline", "write"}

VARIABLES
    now,        \* loop.time(), in ticks
    thr,        \* thr[p][d]: the Throttle on side d of StreamThrottle p
    throttles,  \* throttles[s]: the pairs in stream s's mapping
    fields,     \* fields[s]: read_timeout and write_timeout of stream s
    active,     \* the streams a task drives
    pc,         \* pc[s]: "idle", "wait" (in ThrottleStreamIO.wait), "io" or "done"
    op,         \* op[s]: the method in progress
    arg,        \* arg[s]: count asked of a read, len(data) of a write
    subs,       \* subs[s][p]: the task created for pair p's Throttle.wait
    ioStart,    \* ioStart[s]: start = _now() of the call
    ioTimeout,  \* ioTimeout[s]: the local `timeout` of the wrapper
    outcome,    \* outcome[s]: how the call ended
    got,        \* got[s]: len of the data the call moved
    ncalls,     \* ncalls[s]: calls made so far
    callThr,    \* history: thr when the call in progress was made
    beginThr,   \* history: thr when the raw I/O of the call began
    log,        \* history: log[s], kept by the specifications that read it
    unit,       \* history: the last calls made on a Throttle directly
    ctor,       \* a StreamIO(...) construction: its arguments and the fields it set
    it,         \* an AsyncStreamIterator and the read operation it wraps
    lst,        \* an AbstractAsyncLister, its consumer and the step in progress
    ent,        \* the results of an async_enterable wrapper and what they produced
    sc,         \* the `async with` scope of a ThrottleStreamIO and its writer
    loc,        \* the process-wide locale, LOCALE_LOCK and the threads using setlocale
    cl          \* Throttle objects under study: a StreamThrottle and its clone, or two Throttles given the same appends

streamVars == <<now, thr, throttles, fields, active, pc, op, arg, subs, ioStart,
                ioTimeout, outcome, got, ncalls, callThr, beginThr>>

more == <<lst, ent, sc, loc, cl>>

aux == <<unit, ctor, it, more>>

vars == <<streamVars, log, aux>>

NoSub == [st |-> "none", wake |-> 0]
NoSubs == [p \in Pairs |-> NoSub]
NoUnit == [last |-> "none", before |-> "none", delay |-> 0, n |-> 0,
           preset |-> NewThrottle(None, 0)]
NoCtor == [args |-> <<None, None, None>>, built |-> FALSE,
           fields |-> [read_timeout |-> None, write_timeout |-> None]]
NoIter == [src |-> <<>>, out |-> <<>>, signalled |-> FALSE, reads |-> 0, ret |-> <<>>]
NoLog == [first |-> None, total |-> 0, callAt |-> 0]
NoLister == [src |-> <<>>, timeout |-> None, mode |-> "none", pc |-> "idle",
             stepStart |-> 0, stepTimeout |-> None, takes |-> 0, yielded |-> <<>>,
             items |-> <<>>, rest |-> <<>>, outcome |-> "none", result |-> <<>>]
NoEnter == [inst |-> <<>>, res |-> <<>>]
NoScope == [pc |-> "out", value |-> 0, closed |-> 0, how |-> "none"]
NoLocale == [global |-> 0, original |-> 0, lock |-> 0, th |-> <<>>]
NoClone == [heap |-> <<>>, orig |-> <<>>, clone |-> <<>>, last |-> <<>>]

\* ----------------------------------------------------------- initial states
\* StreamThrottle(read=Throttle(limit=r, reset_rate=rr), write=Throttle(limit=w, ...))
NewPair(r, w, rr) ==
    [d \in Dirs |-> NewThrottle(IF d = "read" THEN r ELSE w, rr)]

NoPair == NewPair(None, None, 0)

InitTasks ==
    /\ now = 0
    /\ pc = [s \in Streams |-> "idle"]
    /\ op = [s \in Streams |-> "none"]
    /\ arg = [s \in Streams |-> 0]
    /\ subs = [s \in Streams |-> NoSubs]
    /\ ioStart = [s \in Streams |-> 0]
    /\ ioTimeout = [s \in Streams |-> None]
    /\ outcome = [s \in Streams |-> "none"]
    /\ got = [s \in Streams |-> 0]
    /\ ncalls = [s \in Streams |-> 0]
    /\ callThr = [s \in Streams |-> thr]
    /\ beginThr = [s \in Streams |-> thr]
    /\ log = [s \in Streams |-> NoLog]

\* No lister, no wrapper result, no scope, no thread and no clone under study.
InitMore ==
    /\ lst = NoLister
    /\ ent = NoEnter
    /\ sc = NoScope
    /\ loc = NoLocale
    /\ cl = NoClone

\* No construction and no iterator under study.
InitAux ==
    /\ unit = NoUnit
    /\ ctor = NoCtor
    /\ it = NoIter
    /\ InitMore

\* One ThrottleStreamIO with one named pair, driven by one task.
Init ==
    /\ \E r \in Limits, w \in Limits, rr \in ResetRates :
          thr = [p \in Pairs |-> IF p = "P1" THEN NewPair(r, w, rr) ELSE NoPair]
    /\ active = {1}
    /\ throttles = [s \in Streams |-> IF s = 1 THEN {"P1"} ELSE {}]
    /\ \E tm \in Timeouts : fields = [s \in Streams |-> StreamInit(tm, None, None)]
    /\ InitTasks
    /\ InitAux

\* ------------------------------------------------------------------ actions
\* ThrottleStreamIO.append(name, data, start)
StreamAppend(th, s, d, n, start) ==
    [p \in Pairs |->
        IF p \in throttles[s]
        THEN [th[p] EXCEPT ![d] = ThrottleAppend(th[p][d], n, start)]
        ELSE th[p]]

\* The tasks ThrottleStreamIO.wait(name) creates: one per pair whose side is truthy.
CreatedSubs(s, d) ==
    [p \in Pairs |->
        IF p \in throttles[s] /\ Truthy(thr[p][d].limit)
        THEN [st |-> "created", wake |-> 0]
        ELSE NoSub]

\* The tasks a call of method o waits for before its raw I/O.
WaitTasks(s, o) == IF Throttled(o) THEN CreatedSubs(s, Dir(o)) ELSE NoSubs

\* start = _now(); await super().<op>(...): the wrapper reads the timeout field
\* and the raw I/O begins.
BeginIo(s, o) ==
    /\ pc' = [pc EXCEPT ![s] = "io"]
    /\ ioStart' = [ioStart EXCEPT ![s] = now]
    /\ ioTimeout' = [ioTimeout EXCEPT ![s] = fields[s][TimeoutField(o)]]
    /\ beginThr' = [beginThr EXCEPT ![s] = thr]

\* A task calls method o with a count, or data, of n bytes.
CallOp(s, o, n) ==
    /\ UNCHANGED aux
    /\ s \in active
    /\ pc[s] = "idle"
    /\ ncalls[s] < MaxCalls
    /\ op' = [op EXCEPT ![s] = o]
    /\ arg' = [arg EXCEPT ![s] = n]
    /\ IF \E p \in Pairs : WaitTasks(s, o)[p].st = "created"
       THEN /\ pc' = [pc EXCEPT ![s] = "wait"]
            /\ subs' = [subs EXCEPT ![s] = WaitTasks(s, o)]
            /\ UNCHANGED <<ioStart, ioTimeout, beginThr>>
       ELSE /\ BeginIo(s, o)
            /\ UNCHANGED subs
    /\ ncalls' = [ncalls EXCEPT ![s] = @ + 1]
    /\ callThr' = [callThr EXCEPT ![s] = thr]
    /\ UNCHANGED <<now, thr, throttles, fields, active, outcome, got>>

\* read(count), readline(), readexactly(count) or write(data)
Call(s) ==
    /\ \E o \in Ops, n \in 1..MaxLen : CallOp(s, o, n)
    /\ UNCHANGED log

RECURSIVE SumDelays(_, _, _)
SumDelays(ps, d, clock) ==
    IF ps = {} THEN 0
    ELSE LET q == CHOOSE x \in ps : TRUE
         IN  ThrottleDelay(thr[q][d], clock) + SumDelays(ps \ {q}, d, clock)

\* The waits taken one after the other, each for the delay it had at the call.
SubWakeTickSerial(s, p) == now + SumDelays(throttles[s], Dir(op[s]), now)

\* The clock value at which the sleep of pair p's Throttle.wait is due.
SubWakeTick(s, p) == now + ThrottleDelay(thr[p][Dir(op[s])], now)

\* A created task runs Throttle.wait up to its sleep, or to its end.
SubStart(s, p) ==
    /\ UNCHANGED aux
    /\ pc[s] = "wait"
    /\ subs[s][p].st = "created"
    /\ subs' = [subs EXCEPT ![s][p] =
                  IF ThrottleWaitSleeps(thr[p][Dir(op[s])])
                  THEN [st |-> "sleeping", wake |-> SubWakeTick(s, p)]
                  ELSE [st |-> "done", wake |-> now]]
    /\ UNCHANGED <<now, thr, throttles, fields, active, pc, op, arg, ioStart,
                   ioTimeout, outcome, got, ncalls, callThr, beginThr, log>>

\* asyncio.sleep returns.
SubWake(s, p) ==
    /\ UNCHANGED aux
    /\ pc[s] = "wait"
    /\ subs[s][p].st = "sleeping"
    /\ now >= subs[s][p].wake
    /\ subs' = [subs EXCEPT ![s][p].st = "done"]
    /\ UNCHANGED <<now, thr, throttles, fields, active, pc, op, arg, ioStart,
                   ioTimeout, outcome, got, ncalls, callThr, beginThr, log>>

\* asyncio.wait(tasks) returns: every task is done.
WaitReturn(s) ==
    /\ UNCHANGED aux
    /\ pc[s] = "wait"
    /\ \A p \in Pairs : subs[s][p].st \in {"none", "done"}
    /\ BeginIo(s, op[s])
    /\ UNCHANGED <<now, thr, throttles, fields, active, op, arg, subs, outcome,
                   got, ncalls, callThr, log>>

\* The lengths the raw I/O of a call may move.
Moved(s) ==
    CASE op[s] = "write" -> {arg[s]}
      [] op[s] = "readexactly" -> {arg[s]}
      [] OTHER -> 0..arg[s]

\* thr had the method accounted the count it asked for, not the data it got.
ThrAfterIoRequested(s, n) ==
    IF Throttled(op[s]) THEN StreamAppend(thr, s, Dir(op[s]), arg[s], ioStart[s]) ELSE thr

\* thr after the raw I/O of a call returned n bytes.
ThrAfterIo(s, n) ==
    IF Throttled(op[s]) THEN StreamAppend(thr, s, Dir(op[s]), n, ioStart[s]) ELSE thr

\* The raw I/O completes with n bytes and the method returns.
IoEndWith(s, n) ==
    /\ UNCHANGED aux
    /\ pc[s] = "io"
    /\ n \in Moved(s)
    /\ thr' = ThrAfterIo(s, n)
    /\ got' = [got EXCEPT ![s] = n]
    /\ pc' = [pc EXCEPT ![s] = "done"]
    /\ outcome' = [outcome EXCEPT ![s] = "ok"]
    /\ subs' = [subs EXCEPT ![s] = NoSubs]
    /\ UNCHANGED <<now, throttles, fields, active, op, arg, ioStart, ioTimeout,
                   ncalls, callThr, beginThr>>

IoEnd(s) ==
    /\ \E n \in 0..MaxLen : IoEndWith(s, n)
    /\ UNCHANGED log

\* The timeout field as it is now, not as the wrapper read it.
LiveTimeout(s) == fields[s][TimeoutField(op[s])]

\* The timeout asyncio.wait_for was given.
WaitForTimeout(s) == ioTimeout[s]

\* thr had the method accounted in a `finally:`.
ThrAfterRaiseAccounted(s) ==
    IF Throttled(op[s]) THEN StreamAppend(thr, s, Dir(op[s]), arg[s], now) ELSE thr

\* thr after an exception left the method: nothing handles it, append is skipped.
ThrAfterRaise(s) == thr

\* An exception leaves the method.
Raise(s, what) ==
    /\ UNCHANGED aux
    /\ pc' = [pc EXCEPT ![s] = "done"]
    /\ outcome' = [outcome EXCEPT ![s] = what]
    /\ thr' = ThrAfterRaise(s)
    /\ subs' = [subs EXCEPT ![s] = NoSubs]
    /\ UNCHANGED <<now, throttles, fields, active, op, arg, ioStart, ioTimeout,
                   got, ncalls, callThr, beginThr, log>>

\* The deadline of a method wrapped as a whole, its throttle wait included: it
\* counts from the call.
IoTimeoutFromCall(s) ==
    /\ pc[s] \in {"wait", "io"}
    /\ fields[s][TimeoutField(op[s])] # None
    /\ now >= log[s].callAt + fields[s][TimeoutField(op[s])] * TicksPerSecond
    /\ Raise(s, "timeout")

\* asyncio.wait_for gives up: asyncio.TimeoutError leaves the method.
IoTimeout(s) ==
    /\ pc[s] = "io"
    /\ WaitForTimeout(s) # None
    /\ now >= ioStart[s] + WaitForTimeout(s) * TicksPerSecond
    /\ Raise(s, "timeout")

\* The calling task is cancelled at one of the method's suspension points.
Cancel(s) ==
    /\ pc[s] \in {"wait", "io"}
    /\ Raise(s, "cancelled")

\* The caller takes the result (or the exception); the call's frame is gone.
ReturnFrame(s) ==
    /\ UNCHANGED aux
    /\ pc[s] = "done"
    /\ pc' = [pc EXCEPT ![s] = "idle"]
    /\ op' = [op EXCEPT ![s] = "none"]
    /\ arg' = [arg EXCEPT ![s] = 0]
    /\ ioStart' = [ioStart EXCEPT ![s] = 0]
    /\ ioTimeout' = [ioTimeout EXCEPT ![s] = None]
    /\ outcome' = [outcome EXCEPT ![s] = "none"]
    /\ got' = [got EXCEPT ![s] = 0]
    /\ callThr' = [callThr EXCEPT ![s] = thr]
    /\ beginThr' = [beginThr EXCEPT ![s] = thr]
    /\ UNCHANGED <<now, thr, throttles, fields, active, subs, ncalls>>

Return(s) ==
    /\ ReturnFrame(s)
    /\ UNCHANGED log

\* The clock advances (a method's return to its caller takes no time).
Tick ==
    /\ UNCHANGED aux
    /\ now < MaxTime
    /\ \A s \in Streams : pc[s] # "done"
    /\ now' = now + 1
    /\ UNCHANGED <<thr, throttles, fields, active, pc, op, arg, subs, ioStart,
                   ioTimeout, outcome, got, ncalls, callThr, beginThr, log>>

Next ==
    \/ \E s \in Streams : Call(s)
    \/ \E s \in Streams, p \in Pairs : SubStart(s, p)
    \/ \E s \in Streams, p \in Pairs : SubWake(s, p)
    \/ \E s \in Streams : WaitReturn(s)
    \/ \E s \in Streams : IoEnd(s)
    \/ \E s \in Streams : IoTimeout(s)
    \/ \E s \in Streams : Cancel(s)
    \/ \E s \in Streams : Return(s)
    \/ Tick

Spec == Init /\ [][Next]_vars

\* ---------------------------------------------------------- stacked pairs
\* One ThrottleStreamIO with two named pairs, both limited on both sides.
InitStacked ==
    /\ \E l1 \in 1..MaxLimit, l2 \in 1..MaxLimit, rr \in ResetRates :
          thr = [p \in Pairs |-> IF p = "P1" THEN NewPair(l1, l1, rr)
                                             ELSE NewPair(l2, l2, rr)]
    /\ active = {1}
    /\ throttles = [s \in Streams |-> IF s = 1 THEN Pairs ELSE {}]
    /\ \E tm \in Timeouts : fields = [s \in Streams |-> StreamInit(tm, None, None)]
    /\ InitTasks
    /\ InitAux

\* A call, with the time it was made kept in log; the last call is left out
\* (one call gives the throttles their history, the next one waits).
CallLogged(s) ==
    /\ ncalls[s] < MaxCalls - 1
    /\ \E o \in Ops, n \in 1..MaxLen : CallOp(s, o, n)
    /\ log' = [log EXCEPT ![s].callAt = now]

\* The caller takes the result; log forgets the call.
ReturnLogged(s) ==
    /\ ReturnFrame(s)
    /\ log' = [log EXCEPT ![s].callAt = 0]

NextStacked ==
    \/ \E s \in Streams : CallLogged(s)
    \/ \E s \in Streams, p \in Pairs : SubStart(s, p)
    \/ \E s \in Streams, p \in Pairs : SubWake(s, p)
    \/ \E s \in Streams : WaitReturn(s)
    \/ \E s \in Streams : IoEnd(s)
    \/ \E s \in Streams : IoTimeout(s)
    \/ \E s \in Streams : Cancel(s)
    \/ \E s \in Streams : ReturnLogged(s)
    \/ Tick

SpecStacked == InitStacked /\ [][NextStacked]_vars

\* ------------------------------------------------------------ shared pair
\* Two ThrottleStreamIO, each driven by its own task, whose mappings hold the
\* same StreamThrottle.
InitShared ==
    /\ \E l \in 1..MaxLimit, rr \in ResetRates :
          thr = [p \in Pairs |-> IF p = "P1" THEN NewPair(l, l, rr) ELSE NoPair]
    /\ active = Streams
    /\ throttles = [s \in Streams |-> {"P1"}]
    /\ \E tm \in Timeouts : fields = [s \in Streams |-> StreamInit(tm, None, None)]
    /\ InitTasks
    /\ InitAux

\* write(data), all but the last call.
CallWrite(s) ==
    /\ ncalls[s] < MaxCalls - 1
    /\ \E n \in 1..MaxLen : CallOp(s, "write", n)
    /\ UNCHANGED log

NextShared ==
    \/ \E s \in Streams : CallWrite(s)
    \/ \E s \in Streams, p \in Pairs : SubStart(s, p)
    \/ \E s \in Streams, p \in Pairs : SubWake(s, p)
    \/ \E s \in Streams : WaitReturn(s)
    \/ \E s \in Streams : IoEnd(s)
    \/ \E s \in Streams : Return(s)
    \/ Tick

SpecShared == InitShared /\ [][NextShared]_vars

\* ------------------------------------------------------ back-to-back writes
\* The write limits whose owed times all fall on the clock's grid.
GridLimits == {l \in 1..TicksPerSecond : TicksPerSecond % l = 0}

\* One ThrottleStreamIO with one named pair whose write side is limited.
InitB2B ==
    /\ \E l \in GridLimits, rr \in ResetRates :
          thr = [p \in Pairs |-> IF p = "P1" THEN NewPair(None, l, rr) ELSE NoPair]
    /\ active = {1}
    /\ throttles = [s \in Streams |-> IF s = 1 THEN {"P1"} ELSE {}]
    /\ \E tm \in Timeouts : fields = [s \in Streams |-> StreamInit(tm, None, None)]
    /\ InitTasks
    /\ InitAux

\* write(data); log keeps the time of the first call.
WriteNext(s) ==
    /\ \E n \in 1..MaxLen : CallOp(s, "write", n)
    /\ log' = [log EXCEPT ![s].first = IF @ = None THEN now ELSE @]

\* The raw write takes the whole chunk; log adds it to the bytes written.
WriteEnd(s) ==
    /\ IoEndWith(s, arg[s])
    /\ log' = [log EXCEPT ![s].total = @ + arg[s]]

\* Time passes only while a Throttle.wait sleeps: the raw writes take no time
\* and the caller leaves no gap between its calls.
TickAsleep ==
    /\ \E s \in Streams, p \in Pairs :
          subs[s][p].st = "sleeping" /\ subs[s][p].wake > now
    /\ Tick

NextB2B ==
    \/ \E s \in Streams : WriteNext(s)
    \/ \E s \in Streams, p \in Pairs : SubStart(s, p)
    \/ \E s \in Streams, p \in Pairs : SubWake(s, p)
    \/ \E s \in Streams : WaitReturn(s)
    \/ \E s \in Streams : WriteEnd(s)
    \/ \E s \in Streams : Return(s)
    \/ TickAsleep

SpecB2B == InitB2B /\ [][NextB2B]_vars

\* --------------------------------------------------------- timeout fields
\* One raw timed stream (no throttle pairs), built by StreamIO.__init__.
InitTimeout ==
    /\ thr = [p \in Pairs |-> NoPair]
    /\ active = {1}
    /\ throttles = [s \in Streams |-> {}]
    /\ \E tm \in TimeoutArgs, rt \in TimeoutArgs, wt \in TimeoutArgs :
          fields = [s \in Streams |-> StreamInit(tm, rt, wt)]
    /\ InitTasks
    /\ InitAux

\* stream.read_timeout = v, or stream.write_timeout = v
SetTimeout(s) ==
    /\ s \in active
    /\ \E f \in {"read_timeout", "write_timeout"}, v \in TimeoutArgs :
          /\ fields[s][f] # v
          /\ fields' = [fields EXCEPT ![s][f] = v]
    /\ UNCHANGED <<now, thr, throttles, active, pc, op, arg, subs, ioStart,
                   ioTimeout, outcome, got, ncalls, callThr, beginThr, log, aux>>

\* read(1) or write of one byte, all but the last call: what a call moves plays
\* no part in its deadline.
CallTimed(s) ==
    /\ ncalls[s] < MaxCalls - 1
    /\ \E o \in {"read", "write"} : CallOp(s, o, 1)
    /\ UNCHANGED log

NextTimeout ==
    \/ \E s \in Streams : CallTimed(s)
    \/ \E s \in Streams : IoEnd(s)
    \/ \E s \in Streams : IoTimeout(s)
    \/ \E s \in Streams : Return(s)
    \/ \E s \in Streams : SetTimeout(s)
    \/ Tick

SpecTimeout == InitTimeout /\ [][NextTimeout]_vars

\* ------------------------------------------------------- one Throttle alone
\* The Throttle the calls below are made on.
TheThrottle == thr["P1"]["read"]

InitUnit ==
    /\ \E l \in LimitArgs, rr \in ResetRates :
          thr = [p \in Pairs |-> IF p = "P1" THEN NewPair(l, None, rr) ELSE NoPair]
    /\ active = {}
    /\ throttles = [s \in Streams |-> {}]
    /\ fields = [s \in Streams |-> StreamInit(None, None, None)]
    /\ InitTasks
    /\ InitAux

UnitStep(what, delay, preset) ==
    /\ unit.n < MaxUnitOps
    /\ unit' = [last |-> what, before |-> unit.last, delay |-> delay,
                n |-> unit.n + 1, preset |-> preset]
    /\ UNCHANGED <<now, throttles, fields, active, pc, op, arg, subs, ioStart,
                   ioTimeout, outcome, got, ncalls, callThr, beginThr, log, ctor, it,
                   more>>

\* throttle.append(data, start), start a clock value read earlier
UnitAppend ==
    /\ \E n \in 0..MaxLen, start \in 0..now :
          thr' = [thr EXCEPT !["P1"]["read"] = ThrottleAppend(@, n, start)]
    /\ UnitStep("append", 0, unit.preset)

\* await throttle.wait(): the time it sleeps is kept in unit.delay
UnitWait ==
    /\ thr' = thr
    /\ UnitStep("wait", ThrottleDelay(TheThrottle, now), unit.preset)

\* throttle.limit = value
UnitSetLimit ==
    /\ \E v \in LimitArgs :
          thr' = [thr EXCEPT !["P1"]["read"] = ThrottleSetLimit(@, v)]
    /\ UnitStep("set", 0, TheThrottle)

NextUnit ==
    \/ UnitAppend
    \/ UnitWait
    \/ UnitSetLimit
    \/ Tick

SpecUnit == InitUnit /\ [][NextUnit]_vars

\* ------------------------------------------------------- StreamIO.__init__
NoStreams ==
    /\ thr = [p \in Pairs |-> NoPair]
    /\ active = {}
    /\ throttles = [s \in Streams |-> {}]
    /\ fields = [s \in Streams |-> StreamInit(None, None, None)]
    /\ InitTasks
    /\ unit = NoUnit
    /\ InitMore

\* The arguments timeout, read_timeout and write_timeout of a construction.
InitCtor ==
    /\ NoStreams
    /\ \E tm \in TimeoutArgs, rt \in TimeoutArgs, wt \in TimeoutArgs :
          ctor = [NoCtor EXCEPT !.args = <<tm, rt, wt>>]
    /\ it = NoIter

\* StreamIO(reader, writer, timeout=, read_timeout=, write_timeout=)
Construct ==
    /\ ~ctor.built
    /\ ctor' = [ctor EXCEPT !.built = TRUE,
                            !.fields = StreamInit(ctor.args[1], ctor.args[2], ctor.args[3])]
    /\ UNCHANGED <<streamVars, log, unit, it, more>>

NextCtor == Construct

SpecCtor == InitCtor /\ [][NextCtor]_vars

\* ----------------------------------------------------- AsyncStreamIterator
\* The results a read operation may return: 0 is the empty result, n > 0 a
\* result of n bytes.
RECURSIVE Scripts(_)
Scripts(n) ==
    IF n = 0 THEN {<<>>}
    ELSE Scripts(n - 1) \cup {Append(q, x) : q \in Scripts(n - 1), x \in 0..MaxLen}

\* AsyncStreamIterator(read_coro): it.src is what read_coro will return, call
\* after call; once it is used up the source is at its end and returns empty.
InitIter ==
    /\ NoStreams
    /\ ctor = NoCtor
    /\ \E q \in Scripts(MaxSrc) : it = [NoIter EXCEPT !.src = q]

\* data = await self.read_coro()
ReadCoro == IF it.src = <<>> THEN 0 ELSE Head(it.src)

\* `if data:` taken for every result, the empty one included.
YieldsAlways(data) == TRUE

\* `if data:`: the step returns data; otherwise it raises StopAsyncIteration.
Yields(data) == data # 0

\* __anext__: one step of the iterator.
Anext ==
    /\ it.reads < MaxSteps
    /\ it' = [src |-> IF it.src = <<>> THEN <<>> ELSE Tail(it.src),
              reads |-> it.reads + 1,
              ret |-> Append(it.ret, ReadCoro),
              out |-> IF Yields(ReadCoro) THEN Append(it.out, ReadCoro) ELSE it.out,
              signalled |-> it.signalled \/ ~Yields(ReadCoro)]
    /\ UNCHANGED <<streamVars, log, unit, ctor, more>>

NextIter == Anext

SpecIter == InitIter /\ [][NextIter]_vars

\* ----------------------------------- AsyncListerMixin, AbstractAsyncLister
\* The elements a concrete lister produces: 1, 2, ..., k, then StopAsyncIteration.
ListScript(k) == [i \in 1..k |-> i]

\* Lister(timeout=...): a concrete AbstractAsyncLister whose __anext__ is wrapped
\* with with_timeout, as the class's docstring shows.
InitLister ==
    /\ thr = [p \in Pairs |-> NoPair]
    /\ active = {}
    /\ throttles = [s \in Streams |-> {}]
    /\ fields = [s \in Streams |-> StreamInit(None, None, None)]
    /\ InitTasks
    /\ unit = NoUnit /\ ctor = NoCtor /\ it = NoIter
    /\ \E k \in 0..MaxSrc, tm \in TimeoutArgs :
          lst = [NoLister EXCEPT !.src = ListScript(k), !.timeout = tm]
    /\ ent = NoEnter /\ sc = NoScope /\ loc = NoLocale /\ cl = NoClone

\* timeout = getattr(self, "timeout") of the with_timeout wrapper of __anext__
StepDeadline == lst.timeout

\* items.append(item) written as `items = [item]`.
ToListKeepLast(items, item) == <<item>>

\* items.append(item) of _to_list
ToListAppend(items, item) == Append(items, item)

\* _to_list with the loop in `try: ... except asyncio.TimeoutError: pass`.
ToListResultPartial(how) == lst.items

\* What awaiting the lister gives when the loop ended by `how`: the list on
\* StopAsyncIteration; a TimeoutError passes through and nothing is returned.
ToListResult(how) == IF how = "stop" THEN lst.items ELSE <<>>

ListerUnchanged ==
    UNCHANGED <<streamVars, log, unit, ctor, it, ent, sc, loc, cl>>

\* `await lister` begins: _to_list's `items = []`; lst.rest keeps what
\* element-by-element iteration would still produce from here.
ToListBegin ==
    /\ lst.pc = "idle" /\ lst.mode \in {"none", "iter"}
    /\ lst' = [lst EXCEPT !.mode = "await", !.items = <<>>, !.rest = lst.src,
                           !.outcome = "none"]
    /\ ListerUnchanged

\* __anext__ is called, by `async for` of the consumer or of _to_list: the
\* wrapper reads the timeout; producing the next element (or finding the end)
\* will take `takes` ticks.
StepBegin ==
    /\ lst.pc = "idle"
    /\ \E d \in 0..MaxTakes :
          lst' = [lst EXCEPT !.pc = "step", !.stepStart = now, !.takes = d,
                             !.stepTimeout = StepDeadline,
                             !.mode = IF @ = "none" THEN "iter" ELSE @,
                             !.outcome = "none"]
    /\ ListerUnchanged

\* The step completes within its deadline: an element, or StopAsyncIteration.
StepReturn ==
    /\ lst.pc = "step"
    /\ now >= lst.stepStart + lst.takes
    /\ lst.stepTimeout = None \/ lst.takes <= lst.stepTimeout * TicksPerSecond
    /\ IF lst.src # <<>>
       THEN lst' = [lst EXCEPT
                !.src = Tail(@), !.pc = "idle", !.outcome = "item",
                !.yielded = IF lst.mode = "iter" THEN Append(@, Head(lst.src)) ELSE @,
                !.items = IF lst.mode = "await"
                          THEN ToListAppend(@, Head(lst.src)) ELSE @]
       ELSE lst' = [lst EXCEPT
                !.pc = "done",
                !.outcome = IF lst.mode = "await" THEN "list" ELSE "stop",
                !.result = IF lst.mode = "await" THEN ToListResult("stop") ELSE @]
    /\ ListerUnchanged

\* asyncio.wait_for gives up on the step: asyncio.TimeoutError leaves __anext__,
\* the `async for` and, when awaited, _to_list.
StepTimeout ==
    /\ lst.pc = "step"
    /\ lst.stepTimeout # None
    /\ lst.takes >= lst.stepTimeout * TicksPerSecond
    /\ now >= lst.stepStart + lst.stepTimeout * TicksPerSecond
    /\ lst' = [lst EXCEPT
             !.pc = "done", !.outcome = "timeout",
             !.result = IF lst.mode = "await" THEN ToListResult("timeout") ELSE @]
    /\ ListerUnchanged

NextLister ==
    \/ ToListBegin
    \/ StepBegin
    \/ StepReturn
    \/ StepTimeout
    \/ Tick

SpecLister == InitLister /\ [][NextLister]_vars

\* --------------------------------------------------------- async_enterable
\* Everything but the wrapper results is out of use.
OnlyMore ==
    /\ thr = [p \in Pairs |-> NoPair]
    /\ active = {}
    /\ throttles = [s \in Streams |-> {}]
    /\ fields = [s \in Streams |-> StreamInit(None, None, None)]
    /\ InitTasks
    /\ unit = NoUnit /\ ctor = NoCtor /\ it = NoIter

\* No wrapper() has been called yet.
InitEnter ==
    /\ OnlyMore
    /\ lst = NoLister /\ ent = NoEnter /\ sc = NoScope /\ loc = NoLocale
    /\ cl = NoClone

EnterUnchanged ==
    UNCHANGED <<streamVars, log, unit, ctor, it, lst, sc, loc, cl>>

\* wrapper(*args, **kwargs): a new AsyncEnterableInstance; f is not called.
WrapperCall ==
    /\ Len(ent.inst) < MaxInst
    /\ ent' = [ent EXCEPT !.inst = Append(@, [use |-> "new", context |-> 0,
                                               kind |-> "none", got |-> 0])]
    /\ EnterUnchanged

\* f(*args, **kwargs) awaited: the factory makes a resource of its own for
\* every call; `by` is the instance whose method called it.
Produced(i) == [by |-> i, entered |-> 0, exited |-> 0]

\* `await wrapper()`: __await__ hands over f(*args, **kwargs).__await__().
AwaitInst(i) ==
    /\ i \in 1..Len(ent.inst)
    /\ ent.inst[i].use = "new"
    /\ ent' = [inst |-> [ent.inst EXCEPT ![i] =
                           [use |-> "awaited", context |-> 0, kind |-> "resource",
                            got |-> Len(ent.res) + 1]],
               res |-> Append(ent.res, Produced(i))]
    /\ EnterUnchanged

\* `async with wrapper() as v`: __aenter__ awaits f, keeps the resource in
\* self.context and returns what the resource's own __aenter__ returns.
EnterInst(i) ==
    /\ i \in 1..Len(ent.inst)
    /\ ent.inst[i].use = "new"
    /\ ent' = [inst |-> [ent.inst EXCEPT ![i] =
                           [use |-> "in", context |-> Len(ent.res) + 1,
                            kind |-> "value", got |-> Len(ent.res) + 1]],
               res |-> Append(ent.res, [Produced(i) EXCEPT !.entered = @ + 1])]
    /\ EnterUnchanged

\* __aexit__ with the context kept by whichever instance entered last.
ExitTargetLatest(i) == Len(ent.res)

\* self.context of __aexit__
ExitTarget(i) == ent.inst[i].context

\* The `async with` body is left, normally or by an exception: __aexit__ awaits
\* self.context.__aexit__(*args, **kwargs).
ExitInst(i) ==
    /\ i \in 1..Len(ent.inst)
    /\ ent.inst[i].use = "in"
    /\ ent' = [inst |-> [ent.inst EXCEPT ![i].use = "out"],
               res |-> [ent.res EXCEPT ![ExitTarget(i)].exited = @ + 1]]
    /\ EnterUnchanged

NextEnter ==
    \/ WrapperCall
    \/ \E i \in 1..MaxInst : AwaitInst(i)
    \/ \E i \in 1..MaxInst : EnterInst(i)
    \/ \E i \in 1..MaxInst : ExitInst(i)

SpecEnter == InitEnter /\ [][NextEnter]_vars

\* ------------------------------------------- the scope of a ThrottleStreamIO
\* One ThrottleStreamIO with one named pair, not yet used.
InitScope ==
    /\ \E r \in Limits, w \in Limits, rr \in ResetRates :
          thr = [p \in Pairs |-> IF p = "P1" THEN NewPair(r, w, rr) ELSE NoPair]
    /\ active = {1}
    /\ throttles = [s \in Streams |-> IF s = 1 THEN {"P1"} ELSE {}]
    /\ \E tm \in Timeouts : fields = [s \in Streams |-> StreamInit(tm, None, None)]
    /\ InitTasks
    /\ InitAux

ScopeUnchanged ==
    UNCHANGED <<streamVars, log, unit, ctor, it, lst, ent, loc, cl>>

\* `async with stream as v`: __aenter__ returns self.
Aenter ==
    /\ sc.pc = "out"
    /\ sc' = [sc EXCEPT !.pc = "body", !.value = 1]
    /\ ScopeUnchanged

\* How the body can be left when the stream's task is where it is: by the
\* exception of the call that just failed, or, between calls, normally or by an
\* exception of the body's own.
Leaves ==
    CASE pc[1] = "idle" -> {"normal", "failed"}
      [] pc[1] = "done" /\ outcome[1] = "timeout" -> {"failed"}
      [] pc[1] = "done" /\ outcome[1] = "cancelled" -> {"cancelled"}
      [] OTHER -> {}

\* __aexit__ with `if exc_type is None: self.close()`.
ClosedOnSuccess(how) == IF how = "normal" THEN sc.closed + 1 ELSE sc.closed

\* __aexit__(exc_type, exc, tb): self.close(), that is self.writer.close();
\* the calls of writer.close() so far.
Closed(how) == sc.closed + 1

\* The body is left and __aexit__ runs.
Aexit ==
    /\ sc.pc = "body"
    /\ \E how \in Leaves :
          sc' = [sc EXCEPT !.pc = "left", !.how = how, !.closed = Closed(how)]
    /\ ScopeUnchanged

\* The body uses the stream.
InBody(A) == sc.pc = "body" /\ A

NextScope ==
    \/ Aenter
    \/ Aexit
    \/ \E s \in Streams : InBody(CallTimed(s))
    \/ \E s \in Streams, p \in Pairs : InBody(SubStart(s, p))
    \/ \E s \in Streams, p \in Pairs : InBody(SubWake(s, p))
    \/ \E s \in Streams : InBody(WaitReturn(s))
    \/ \E s \in Streams : InBody(IoEnd(s))
    \/ \E s \in Streams : InBody(IoTimeout(s))
    \/ \E s \in Streams : InBody(Cancel(s))
    \/ \E s \in Streams : InBody(Return(s))
    \/ InBody(Tick)

SpecScope == InitScope /\ [][NextScope]_vars

\* ---------------------------------------------------------------- setlocale
\* The threads that use setlocale.
Threads == {1, 2}

\* The values locale.setlocale(LC_ALL) can return: the locales of the system.
Locales == 1..MaxLocale

\* The names a caller may ask for: 0 is "" (the user's default locale), a
\* locale of the system, or MaxLocale + 1, a name the system does not know.
LocaleNames == 0..(MaxLocale + 1)

\* locale.setlocale(LC_ALL, name) raises locale.Error for an unknown name.
Supported(name) == name <= MaxLocale

\* What locale.setlocale(LC_ALL, name) sets and returns: "" stands for the
\* user's default locale, any other known name for itself.
Applied(name) == IF name = 0 THEN 1 ELSE name

NoThread == [pc |-> "out", name |-> 0, old |-> 0, applied |-> 0, how |-> "none",
             scopes |-> 0]

InitLocale ==
    /\ OnlyMore
    /\ lst = NoLister /\ ent = NoEnter /\ sc = NoScope /\ cl = NoClone
    /\ \E l \in Locales :
          loc = [global |-> l, original |-> l, lock |-> 0,
                 th |-> [t \in Threads |-> NoThread]]

LocaleUnchanged ==
    UNCHANGED <<streamVars, log, unit, ctor, it, lst, ent, sc, cl>>

\* A lock that any thread may take at any time.
LockFreeAlways == TRUE

\* LOCALE_LOCK can be acquired.
LockFree == loc.lock = 0

\* `with setlocale(name):` reaches `with LOCALE_LOCK:` and acquires the lock.
Acquire(t) ==
    /\ loc.th[t].pc = "out"
    /\ loc.th[t].scopes < MaxScopes
    /\ LockFree
    /\ \E name \in LocaleNames :
          loc' = [loc EXCEPT !.lock = t,
                             !.th[t] = [NoThread EXCEPT !.pc = "locked", !.name = name,
                                                        !.scopes = loc.th[t].scopes + 1]]
    /\ LocaleUnchanged

\* old_locale = locale.setlocale(locale.LC_ALL)
ReadOld(t) ==
    /\ loc.th[t].pc = "locked"
    /\ loc' = [loc EXCEPT !.th[t].pc = "try", !.th[t].old = loc.global]
    /\ LocaleUnchanged

\* yield locale.setlocale(locale.LC_ALL, name): the body starts with the applied
\* name, or locale.Error sends control to `finally`.
SetNew(t) ==
    /\ loc.th[t].pc = "try"
    /\ IF Supported(loc.th[t].name)
       THEN loc' = [loc EXCEPT !.global = Applied(loc.th[t].name),
                               !.th[t].pc = "body",
                               !.th[t].applied = Applied(loc.th[t].name)]
       ELSE loc' = [loc EXCEPT !.th[t].pc = "finally", !.th[t].how = "rejected"]
    /\ LocaleUnchanged

\* The body ends, normally or with an exception.
BodyEnd(t) ==
    /\ loc.th[t].pc = "body"
    /\ \E how \in {"normal", "failed"} :
          loc' = [loc EXCEPT !.th[t].pc = "finally", !.th[t].how = how]
    /\ LocaleUnchanged

\* finally: locale.setlocale(locale.LC_ALL, old_locale)
Restore(t) ==
    /\ loc.th[t].pc = "finally"
    /\ loc' = [loc EXCEPT !.global = Applied(loc.th[t].old), !.th[t].pc = "unlock"]
    /\ LocaleUnchanged

\* The `with LOCALE_LOCK:` block is left: the lock is released.
Release(t) ==
    /\ loc.th[t].pc = "unlock"
    /\ loc' = [loc EXCEPT !.lock = 0, !.th[t].pc = "out"]
    /\ LocaleUnchanged

NextLocale ==
    \/ \E t \in Threads : Acquire(t)
    \/ \E t \in Threads : ReadOld(t)
    \/ \E t \in Threads : SetNew(t)
    \/ \E t \in Threads : BodyEnd(t)
    \/ \E t \in Threads : Restore(t)
    \/ \E t \in Threads : Release(t)

SpecLocale == InitLocale /\ [][NextLocale]_vars

\* ------------------------------------- Throttle.clone, StreamThrottle.clone
\* Throttle objects live in cl.heap and are known by their position in it;
\* cl.orig and cl.clone hold, per side, the object of a StreamThrottle and of
\* its clone (0: not cloned yet); cl.last keeps the last call made.
NoCall == [op |-> "none", on |-> "none", dir |-> "none", n |-> 0, start |-> 0,
           prior |-> NewThrottle(None, 0), count |-> 0]

\* StreamThrottle(read=Throttle(limit=, reset_rate=), write=Throttle(...))
InitClone ==
    /\ OnlyMore
    /\ lst = NoLister /\ ent = NoEnter /\ sc = NoScope /\ loc = NoLocale
    /\ \E l1 \in LimitArgs, l2 \in {None, MaxLimit}, r1 \in 1..MaxResetRate :
          cl = [heap |-> <<NewThrottle(l1, r1), NewThrottle(l2, 1)>>,
                orig |-> [read |-> 1, write |-> 2],
                clone |-> [read |-> 0, write |-> 0],
                last |-> NoCall]

CloneUnchanged ==
    UNCHANGED <<thr, throttles, fields, active, pc, op, arg, subs, ioStart,
                ioTimeout, outcome, got, ncalls, callThr, beginThr, log, unit, ctor,
                it, lst, ent, sc, loc>>

\* The object on side d of the StreamThrottle w ("orig" or "clone").
Obj(w, d) == IF w = "orig" THEN cl.orig[d] ELSE cl.clone[d]

Cloned == cl.clone["read"] # 0

\* The StreamThrottles there are.
Whole == IF Cloned THEN {"orig", "clone"} ELSE {"orig"}

\* Throttle.clone as a copy of the object, memory included.
ThrottleCloneCopy(t) == t

\* Throttle.clone: Throttle(limit=self._limit, reset_rate=self.reset_rate)
ThrottleClone(t) == NewThrottle(t.limit, t.reset_rate)

\* pair.clone(): StreamThrottle(read=self.read.clone(), write=self.write.clone());
\* the two new Throttle objects are added to the heap.
ClonePair ==
    /\ ~Cloned
    /\ cl.last.count < MaxCloneOps
    /\ cl' = [heap |-> cl.heap \o <<ThrottleClone(cl.heap[cl.orig["read"]]),
                                     ThrottleClone(cl.heap[cl.orig["write"]])>>,
              orig |-> cl.orig,
              clone |-> [read |-> Len(cl.heap) + 1, write |-> Len(cl.heap) + 2],
              last |-> [NoCall EXCEPT !.op = "clone", !.on = "orig",
                                      !.count = cl.last.count + 1]]
    /\ now' = now
    /\ CloneUnchanged

\* getattr(pair, d).append(data, start), len(data) = n, start a clock value
\* read earlier.
AppendOn(w, d) ==
    /\ w \in Whole
    /\ cl.last.count < MaxCloneOps
    /\ \E n \in 0..MaxLen, start \in 0..now :
          cl' = [cl EXCEPT
                   !.heap[Obj(w, d)] = ThrottleAppend(@, n, start),
                   !.last = [op |-> "append", on |-> w, dir |-> d, n |-> n,
                             start |-> start, prior |-> cl.heap[Obj(w, d)],
                             count |-> cl.last.count + 1]]
    /\ now' = now
    /\ CloneUnchanged

\* getattr(pair, d).limit = value
SetLimitOn(w, d) ==
    /\ w \in Whole
    /\ cl.last.count < MaxCloneOps
    /\ \E v \in LimitArgs :
          cl' = [cl EXCEPT
                   !.heap[Obj(w, d)] = ThrottleSetLimit(@, v),
                   !.last = [NoCall EXCEPT !.op = "set", !.on = w, !.dir = d,
                                           !.n = v, !.prior = cl.heap[Obj(w, d)],
                                           !.count = cl.last.count + 1]]
    /\ now' = now
    /\ CloneUnchanged

\* The clock advances.
ClockTick ==
    /\ now < MaxTime
    /\ now' = now + 1
    /\ UNCHANGED cl
    /\ CloneUnchanged

NextClone ==
    \/ ClonePair
    \/ \E w \in {"orig", "clone"}, d \in Dirs : AppendOn(w, d)
    \/ \E w \in {"orig", "clone"}, d \in Dirs : SetLimitOn(w, d)
    \/ ClockTick

SpecClone == InitClone /\ [][NextClone]_vars

\* ------------------------------------------------ drift correction or none
\* A reset_rate no interval of the model exceeds: float("inf").
Forever == MaxTime + 1

\* Two Throttles of the same limit that are given the same appends: cl.real
\* with a reset_rate of one second, cl.ideal with an infinite one. cl.exact
\* tells whether (start - _start) * limit was a whole number of bytes in every
\* append so far, cl.corrected whether cl.real has corrected for drift.
InitDrift ==
    /\ OnlyMore
    /\ lst = NoLister /\ ent = NoEnter /\ sc = NoScope /\ loc = NoLocale
    /\ \E l \in 1..MaxLimit, rr \in ResetRates :
          cl = [real |-> NewThrottle(l, rr), ideal |-> NewThrottle(l, Forever),
                exact |-> TRUE, corrected |-> FALSE, count |-> 0]

\* (start - self._start) * self._limit is a whole number (of bytes).
WholeBytes(t, start) ==
    t.start = None \/ ((start - t.start) * t.limit) % TicksPerSecond = 0

\* throttle.append(data, start) on both, len(data) = n, start a clock value
\* read earlier.
AppendBoth ==
    /\ cl.count < MaxDriftOps
    /\ \E n \in 0..MaxLen, start \in 0..now :
          cl' = [real |-> ThrottleAppend(cl.real, n, start),
                 ideal |-> ThrottleAppend(cl.ideal, n, start),
                 exact |-> cl.exact /\ WholeBytes(cl.real, start),
                 corrected |-> \/ cl.corrected
                               \/ /\ cl.real.start # None
                                  /\ ThrottleAppend(cl.real, n, start).start # cl.real.start,
                 count |-> cl.count + 1]
    /\ now' = now
    /\ CloneUnchanged

NextDrift ==
    \/ AppendBoth
    \/ ClockTick

SpecDrift == InitDrift /\ [][NextDrift]_vars

\* ------------------------------------------------------------------- claims
\* The time owed by every byte throttle t has accounted has elapsed at `clock`:
\* clock >= windowStart + accumulated / limit.
OwedElapsed(t, clock) ==
    t.start = None \/ (clock - t.start) * t.limit >= t.sum * TicksPerSecond

Limited(t) == t.limit # None /\ t.limit > 0

\* C1: a stream with one named pair, used by one task: whenever the raw read or
\* write of a read/readline/write call begins, the time owed by every byte the
\* direction's throttle has accounted so far has elapsed.
C1_OwedTimeElapsedAtIo ==
    \A s \in active :
        (/\ active = {s}
         /\ Cardinality(throttles[s]) = 1
         /\ pc[s] = "io"
         /\ Throttled(op[s]))
        => \A p \in throttles[s] :
              Limited(beginThr[s][p][Dir(op[s])])
              => OwedElapsed(beginThr[s][p][Dir(op[s])], ioStart[s])

\* C1's case: the third call's raw I/O begins exactly when the owed time has
\* elapsed, after a sleep in Throttle.wait that ended later than the call began.
C1_Witness ==
    \E s \in active : \E p \in throttles[s] :
        LET t == beginThr[s][p][Dir(op[s])]
        IN  /\ pc[s] = "io" /\ Throttled(op[s]) /\ ncalls[s] = 3
            /\ Limited(t) /\ t.start # None /\ t.sum > 0
            /\ (ioStart[s] - t.start) * t.limit = t.sum * TicksPerSecond
            /\ subs[s][p].st = "done" /\ subs[s][p].wake = ioStart[s]
            /\ t.start > 0

\* C4 as claimed: every byte-level operation of the stream, readexactly included,
\* begins its raw I/O only when every limited pair's owed time has elapsed, and
\* on completion has accounted the bytes it moved into every pair.
C4_EveryOperationThrottled ==
    \A s \in active :
        /\ pc[s] = "io"
           => \A p \in throttles[s] :
                 Limited(beginThr[s][p][Dir(op[s])])
                 => OwedElapsed(beginThr[s][p][Dir(op[s])], ioStart[s])
        /\ (pc[s] = "done" /\ outcome[s] = "ok")
           => thr = StreamAppend(callThr[s], s, Dir(op[s]), got[s], ioStart[s])

\* C5: a throttled call that was cancelled, or failed with asyncio.TimeoutError,
\* leaves every throttle as it was when the call was made.
C5_FailureLeavesThrottles ==
    \A s \in active :
        (pc[s] = "done" /\ outcome[s] \in {"timeout", "cancelled"})
        => thr = callThr[s]

\* C5's case: the deadline expired during the raw I/O of a throttled call on a
\* limited throttle that has history.
C5_Witness ==
    \E s \in active : \E p \in throttles[s] :
        /\ pc[s] = "done" /\ outcome[s] = "timeout" /\ Throttled(op[s])
        /\ Limited(thr[p][Dir(op[s])]) /\ thr[p][Dir(op[s])].sum > 0
        /\ subs[s][p].st = "none"

\* The wait pair p's throttle required when the call in progress was made.
Need(s, p) ==
    IF p \in throttles[s] /\ Truthy(callThr[s][p][Dir(op[s])].limit)
    THEN ThrottleDelay(callThr[s][p][Dir(op[s])], log[s].callAt)
    ELSE 0

MaxNeed(s) == Max2(Need(s, "P1"), Need(s, "P2"))

\* C3: ThrottleStreamIO.wait returns only when the wait of every limited pair
\* has completed, and the waits run side by side: the raw I/O begins no earlier
\* than the larger of the waits required at the call, and once that larger wait
\* has elapsed no throttle holds the call any longer.
C3_WaitAllIsMax ==
    \A s \in active :
        /\ (pc[s] = "io" /\ Throttled(op[s]))
           => ioStart[s] >= log[s].callAt + MaxNeed(s)
        /\ (pc[s] = "wait" /\ now >= log[s].callAt + MaxNeed(s))
           => \A p \in Pairs : subs[s][p].st = "sleeping" => subs[s][p].wake <= now

\* C3's case: both pairs required a wait, of different lengths, and the raw I/O
\* began when the longer one had elapsed.
C3_Witness ==
    \E s \in active :
        /\ pc[s] = "io" /\ Throttled(op[s])
        /\ Need(s, "P1") > 0 /\ Need(s, "P2") > Need(s, "P1")
        /\ ioStart[s] = log[s].callAt + Need(s, "P2")
        /\ subs[s]["P1"].st = "done" /\ subs[s]["P2"].st = "done"

\* C6 as claimed: with one Throttle shared by two streams, no stream's raw I/O
\* begins before windowStart + accumulated / limit of the shared throttle, as it
\* is at the moment that I/O begins.
C6_SharedOwedTimeElapsedAtIo ==
    \A s \in active :
        (pc[s] = "io" /\ Throttled(op[s]))
        => \A p \in throttles[s] :
              Limited(beginThr[s][p][Dir(op[s])])
              => OwedElapsed(beginThr[s][p][Dir(op[s])], ioStart[s])

\* The write limit of the one pair of stream s.
WriteLimit(s) == thr["P1"]["write"].limit

\* C2 as claimed: when the last of the chunks written back-to-back has returned,
\* at least N / L seconds have passed since the first write was called.
C2_ElapsedCoversAllBytes ==
    \A s \in active :
        (pc[s] = "done" /\ outcome[s] = "ok" /\ op[s] = "write")
        => (now - log[s].first) * WriteLimit(s) >= log[s].total * TicksPerSecond

\* C2 as amended: at least (N - len(last chunk)) / L seconds have passed: the wait
\* of a write pays for the bytes accounted before it, never for its own.
C2_ElapsedCoversAllButLast ==
    \A s \in active :
        (pc[s] = "done" /\ outcome[s] = "ok" /\ op[s] = "write")
        => (now - log[s].first) * WriteLimit(s)
              >= (log[s].total - got[s]) * TicksPerSecond

\* C2's case: three chunks of the same size at a limit of two chunks a second
\* (500 bytes at 1000 bytes/second) have been written, and exactly 1.0 second
\* has passed, not 1.5.
C2_Witness ==
    \E s \in active :
        /\ pc[s] = "done" /\ outcome[s] = "ok" /\ op[s] = "write"
        /\ ncalls[s] = 3 /\ got[s] = 1 /\ log[s].total = 3
        /\ WriteLimit(s) = 2
        /\ now - log[s].first = TicksPerSecond

\* C7: assigning a limit to a Throttle, whatever its history and the value,
\* leaves windowStart unset and accumulated zero, and a wait() issued right
\* after it sleeps for no positive time.
C7_SetLimitForgets ==
    /\ unit.last = "set"
       => TheThrottle.start = None /\ TheThrottle.sum = 0
    /\ (unit.last = "wait" /\ unit.before = "set")
       => unit.delay = 0 /\ TheThrottle.start = None /\ TheThrottle.sum = 0

\* C7's case: a limited throttle that owed time was given a positive limit, and
\* wait() was called right after.
C7_Witness ==
    /\ unit.last = "wait" /\ unit.before = "set"
    /\ Limited(unit.preset) /\ ThrottleDelay(unit.preset, now) > 0
    /\ Limited(TheThrottle)

\* C8: a timeout-wrapped operation reads its timeout field when it is invoked,
\* counts the deadline from that call's start, keeps it whatever happens to the
\* field while the call is in flight, and fails with asyncio.TimeoutError only
\* when the timeout it read is not None and has elapsed.
C8_TimeoutReadPerCall ==
    [][\A s \in Streams :
          /\ (pc[s] # "io" /\ pc'[s] = "io")
             => /\ ioTimeout'[s] = fields[s][TimeoutField(op'[s])]
                /\ ioStart'[s] = now
          /\ (pc[s] = "io" /\ pc'[s] = "io") => ioTimeout'[s] = ioTimeout[s]
          /\ (pc[s] = "io" /\ outcome'[s] = "timeout")
             => /\ ioTimeout[s] # None
                /\ now >= ioStart[s] + ioTimeout[s] * TicksPerSecond]_vars

\* C8's case: the second call failed on the deadline it read when it was
\* invoked, although the field was set to None while it was in flight.
C8_Witness ==
    \E s \in active :
        /\ pc[s] = "done" /\ outcome[s] = "timeout" /\ ncalls[s] = 2
        /\ ioTimeout[s] = 1 /\ fields[s][TimeoutField(op[s])] = None
        /\ ioStart[s] > 0 /\ now = ioStart[s] + TicksPerSecond

\* What C9 says a timeout field holds: the individual argument when one was
\* given, the constructor-level timeout otherwise.
Given(own, timeout) == IF own # None THEN own ELSE timeout

\* C9 as claimed: for every combination of the three arguments, 0 included, the
\* read_timeout and write_timeout fields hold the individual argument when one
\* was given and timeout otherwise.
C9_IndividualOverrides ==
    ctor.built
    => /\ ctor.fields.read_timeout = Given(ctor.args[2], ctor.args[1])
       /\ ctor.fields.write_timeout = Given(ctor.args[3], ctor.args[1])

\* C10 as claimed: once the iterator has signalled exhaustion, a later step
\* neither calls the read operation nor yields an element.
C10_StaysExhausted ==
    [][it.signalled => (it'.reads = it.reads /\ it'.out = it.out)]_vars

\* The position of the first empty result in q, 0 when there is none.
FirstEmpty(q) ==
    IF \E i \in 1..Len(q) : q[i] = 0
    THEN CHOOSE i \in 1..Len(q) : q[i] = 0 /\ \A j \in 1..(i - 1) : q[j] # 0
    ELSE 0

\* C11: a fresh AsyncStreamIterator calls the read operation once per step; up to
\* the step that signals exhaustion it has yielded, in order, exactly the results
\* the read operation returned before its first empty result, and exhaustion is
\* signalled by the step that received that empty result.
C11_YieldsUntilFirstEmpty ==
    /\ it.reads = Len(it.ret)
    /\ ~it.signalled => (it.out = it.ret /\ FirstEmpty(it.ret) = 0)
    /\ it.signalled => FirstEmpty(it.ret) > 0
    /\ (it.signalled /\ it.reads = FirstEmpty(it.ret))
       => it.out = SubSeq(it.ret, 1, it.reads - 1)

\* C11's case: the read operation returned two non-empty results and then an
\* empty one; the third step signalled exhaustion with both results yielded.
C11_Witness ==
    /\ it.signalled /\ it.reads = 3
    /\ it.ret = <<1, 2, 0>> /\ it.out = <<1, 2>>

\* C12: awaiting a lister collects, in order and with none dropped or repeated,
\* exactly the elements element-by-element iteration would still have produced
\* from the position the await began at, and StopAsyncIteration ends the
\* collection with that list as the result, not with an error.
C12_AwaitCollectsTheRest ==
    /\ (lst.mode = "await" /\ lst.outcome # "timeout")
       => lst.items \o lst.src = lst.rest
    /\ (lst.mode = "await" /\ lst.pc = "done" /\ lst.outcome # "timeout")
       => (lst.outcome = "list" /\ lst.result = lst.rest /\ lst.src = <<>>)

\* C12's case: a fresh lister of the elements 1, 2, 3 was awaited and gave [1, 2, 3].
C12_Witness ==
    /\ lst.mode = "await" /\ lst.pc = "done" /\ lst.outcome = "list"
    /\ lst.yielded = <<>> /\ lst.result = <<1, 2, 3>>

MadeFor(i) == {r \in 1..Len(ent.res) : ent.res[r].by = i}

\* C14: a wrapper() result that is awaited has had the factory called once and
\* holds the resource itself, never entered; one used with `async with` has had
\* the factory called once, the resource entered once and the value of that
\* entry handed to the body, and once the body is left that same resource has
\* been exited exactly once; no resource serves two wrapper() results.
C14_AwaitOrScope ==
    /\ \A i \in 1..Len(ent.inst) :
          LET x == ent.inst[i]
          IN  /\ x.use = "new" => MadeFor(i) = {}
              /\ x.use = "awaited"
                 => /\ MadeFor(i) = {x.got} /\ x.kind = "resource"
                    /\ ent.res[x.got].entered = 0 /\ ent.res[x.got].exited = 0
              /\ x.use \in {"in", "out"}
                 => /\ MadeFor(i) = {x.context}
                    /\ x.kind = "value" /\ x.got = x.context
                    /\ ent.res[x.context].entered = 1
                    /\ ent.res[x.context].exited = IF x.use = "out" THEN 1 ELSE 0
    /\ Len(ent.res) = Cardinality({i \in 1..Len(ent.inst) : ent.inst[i].use # "new"})

\* C14's case: of three wrapper() results one was awaited and two were used as
\* scopes; the scope entered first was left while the later one was still open.
C14_Witness ==
    /\ Len(ent.inst) >= 3
    /\ \E i, j, k \in 1..Len(ent.inst) :
          /\ ent.inst[i].use = "awaited"
          /\ ent.inst[j].use = "out" /\ ent.inst[k].use = "in"
          /\ ent.inst[j].context < ent.inst[k].context

\* C15: entering the scope of a ThrottleStreamIO touches neither the stream nor
\* its transport and hands the body the stream itself; however the body is
\* left (normally, by an exception, by cancellation), leaving it calls close
\* on the transport, so that after the scope the transport is closed.
C15_ScopeCloses ==
    [][/\ (sc.pc = "out" /\ sc'.pc = "body")
          => (sc'.value = 1 /\ sc'.closed = 0 /\ UNCHANGED streamVars)
       /\ (sc.pc = "body" /\ sc'.pc # "body")
          => (sc'.pc = "left" /\ sc'.closed = sc.closed + 1)
       /\ sc'.pc = "left" => sc'.closed >= 1]_vars

\* C15's case: the body was cancelled inside its second call on the stream, and
\* the scope was left with the transport closed.
C15_Witness ==
    /\ sc.pc = "left" /\ sc.how = "cancelled" /\ sc.closed = 1
    /\ ncalls[1] = 2 /\ outcome[1] = "cancelled"

\* The threads inside a setlocale scope: between acquiring and releasing the lock.
InScope == {t \in Threads : loc.th[t].pc # "out"}

\* C16: whatever the interleaving of the threads, the bodies that fail and the
\* names that are rejected: at most one thread is inside a setlocale scope; a
\* thread about to release the lock has put back the locale it read on entry;
\* and whenever no thread is inside a scope the process-wide locale is the
\* original one.
C16_LocaleSerializedAndRestored ==
    /\ Cardinality(InScope) <= 1
    /\ \A t \in InScope : loc.lock = t
    /\ \A t \in Threads :
          loc.th[t].pc = "unlock" => loc.global = loc.th[t].old
    /\ InScope = {} => (loc.global = loc.original /\ loc.lock = 0)

\* C16's case: a thread whose body failed under a locale other than the
\* original has left its scope, after the other thread had a name rejected.
C16_Witness ==
    \E t, u \in Threads :
        /\ t # u /\ InScope = {}
        /\ loc.th[t].how = "failed" /\ loc.th[t].applied # loc.original
        /\ loc.th[u].how = "rejected"
        /\ loc.global = loc.original

\* The other StreamThrottle.
Other(w) == IF w = "orig" THEN "clone" ELSE "orig"

\* C17: whatever the history of the original, clone() gives new Throttle
\* objects with the original's limit and reset_rate, windowStart unset and
\* accumulated zero, and the original is left as it was; after that an append or
\* a change of limit on either StreamThrottle leaves both sides of the other as
\* they were.
C17_CloneIsFreshAndApart ==
    [][/\ (~Cloned /\ Cloned')
          => \A d \in Dirs :
                LET o == cl.heap[cl.orig[d]]
                    c == cl'.heap[cl'.clone[d]]
                IN  /\ c.limit = o.limit /\ c.reset_rate = o.reset_rate
                    /\ c.start = None /\ c.sum = 0
                    /\ cl'.clone[d] \notin {cl.orig[e] : e \in Dirs}
                    /\ cl'.heap[cl'.orig[d]] = o
                    /\ cl'.orig = cl.orig
       /\ (Cloned /\ cl'.last.count # cl.last.count)
          => \A d \in Dirs :
                cl'.heap[Obj(Other(cl'.last.on), d)] = cl.heap[Obj(Other(cl'.last.on), d)]
      ]_vars

\* C17's case: an original that owes time was cloned, and then accounted more
\* bytes; the clone of that side still has no memory.
C17_Witness ==
    /\ Cloned /\ cl.last.op = "append" /\ cl.last.on = "orig" /\ cl.last.n > 0
    /\ Limited(cl.last.prior) /\ cl.last.prior.sum > 0
    /\ cl.heap[cl.orig[cl.last.dir]].sum > cl.last.prior.sum
    /\ cl.heap[cl.clone[cl.last.dir]].start = None
    /\ cl.heap[cl.clone[cl.last.dir]].sum = 0
    /\ cl.heap[cl.clone[cl.last.dir]].limit = cl.last.prior.limit

\* The Throttle the last call was made on.
LastObj == cl.heap[Obj(cl.last.on, cl.last.dir)]

\* C18: append(data, observedStart) on a limited Throttle: with
\* observedStart - windowStart > resetRate, accumulated becomes
\* prior - round((observedStart - windowStart) * limit) + len(data) and
\* windowStart becomes observedStart; otherwise len(data) is added and
\* windowStart stays (it becomes observedStart when it was unset); on a
\* Throttle whose limit is unset or not positive nothing changes.
C18_AppendArithmetic ==
    cl.last.op = "append"
    => LET p == cl.last.prior
           t == LastObj
           dt == cl.last.start - p.start
       IN  /\ t.limit = p.limit /\ t.reset_rate = p.reset_rate
           /\ IF p.limit = None \/ p.limit <= 0
              THEN t = p
              ELSE IF p.start # None /\ dt > p.reset_rate * TicksPerSecond
              THEN /\ t.sum = p.sum - Round(dt * p.limit, TicksPerSecond) + cl.last.n
                   /\ t.start = cl.last.start
              ELSE /\ t.sum = p.sum + cl.last.n
                   /\ t.start = IF p.start = None THEN cl.last.start ELSE p.start

\* C18's case: an append more than reset_rate after windowStart, whose
\* correction (1.5 seconds at 1 byte/second, rounded to 2) exceeds what was
\* accumulated: accumulated goes negative before len(data) is added.
C18_Witness ==
    /\ cl.last.op = "append"
    /\ cl.last.prior.limit = 1 /\ cl.last.prior.reset_rate = 1
    /\ cl.last.prior.start = 0 /\ cl.last.prior.sum = 1
    /\ cl.last.start = 3 /\ cl.last.n = 2
    /\ LastObj.sum = 1 /\ LastObj.start = 3

\* The side of a pair a call of the other direction uses.
Opposite(d) == IF d = "read" THEN "write" ELSE "read"

\* C19: a throttled read, readline or write first waits for every limited
\* throttle of its direction, then captures observedStart and starts the raw
\* I/O, and accounts only after it: until the I/O has completed no throttle has
\* changed, and once it has, the direction side of every pair has been given
\* the length of the data actually moved (at most the count asked of a read,
\* exactly the bytes given to write) with that observedStart, and the opposite
\* side of every pair is as it was.
C19_WaitStartIoAccount ==
    \A s \in active :
        Throttled(op[s])
        => /\ pc[s] \in {"wait", "io"} => thr = callThr[s]
           /\ pc[s] = "io"
              => /\ ioStart[s] <= now
                 /\ \A p \in throttles[s] :
                       IF Truthy(thr[p][Dir(op[s])].limit)
                       THEN subs[s][p].st = "done" /\ subs[s][p].wake <= ioStart[s]
                       ELSE subs[s][p].st = "none"
           /\ (pc[s] = "done" /\ outcome[s] = "ok")
              => /\ got[s] <= arg[s]
                 /\ op[s] = "write" => got[s] = arg[s]
                 /\ \A p \in throttles[s] :
                       /\ thr[p][Dir(op[s])]
                            = ThrottleAppend(callThr[s][p][Dir(op[s])], got[s], ioStart[s])
                       /\ thr[p][Opposite(Dir(op[s]))]
                            = callThr[s][p][Opposite(Dir(op[s]))]

\* C19's case: a read that asked for two bytes, waited on both pairs and got
\* one byte: one byte was added to the read side of both pairs.
C19_Witness ==
    \E s \in active :
        /\ pc[s] = "done" /\ outcome[s] = "ok" /\ op[s] = "read"
        /\ arg[s] = 2 /\ got[s] = 1
        /\ ioStart[s] > log[s].callAt
        /\ \A p \in Pairs :
              thr[p]["read"].sum = callThr[s][p]["read"].sum + 1

\* C20: asyncio.TimeoutError leaves a throttled read, readline or write only
\* while its raw I/O is in flight and only when the timeout read at the start
\* of that I/O has elapsed since that start; the throttle wait, however long,
\* raises none.
C20_DeadlineCoversIoOnly ==
    [][\A s \in active :
          (Throttled(op[s]) /\ outcome[s] # "timeout" /\ outcome'[s] = "timeout")
          => /\ pc[s] = "io"
             /\ ioTimeout[s] # None
             /\ now >= ioStart[s] + ioTimeout[s] * TicksPerSecond]_vars

\* C20's case: a call whose throttle wait lasted longer than its timeout (one
\* second) began its raw I/O after that wait and completed.
C20_Witness ==
    \E s \in active :
        /\ pc[s] = "done" /\ outcome[s] = "ok" /\ Throttled(op[s])
        /\ ioTimeout[s] = 1
        /\ ioStart[s] - log[s].callAt > ioTimeout[s] * TicksPerSecond
        /\ now < ioStart[s] + ioTimeout[s] * TicksPerSecond

\* windowStart + accumulated / limit of Throttle t, the clock value its next
\* wait() targets, in ticks times the limit.
TargetEnd(t) == t.start * t.limit + t.sum * TicksPerSecond

\* C21: as long as (observedStart - windowStart) * limit was a whole number in
\* every append, the Throttle that corrects for drift and the one that never
\* does target the same clock value in their next wait().
C21_DriftCorrectionKeepsTarget ==
    cl.exact
    => /\ (cl.real.start = None) = (cl.ideal.start = None)
       /\ cl.real.start # None => TargetEnd(cl.real) = TargetEnd(cl.ideal)

\* C21's case: the Throttle with the finite reset_rate has corrected for drift
\* (its window starts later and it holds fewer bytes than the other), time is
\* still owed, and both target the same clock value.
C21_Witness ==
    /\ cl.exact /\ cl.corrected
    /\ cl.real.start > cl.ideal.start /\ cl.real.sum < cl.ideal.sum
    /\ TargetEnd(cl.real) = TargetEnd(cl.ideal)
    /\ TargetEnd(cl.real) > now * cl.real.limit

====
